---- MODULE Spec2Model ----
(***************************************************************************)
(* Model of main.py, the Streamlit dashboard of the polar-plant EC study:  *)
(* the Unicode-safe filename match, the data directory search, the two     *)
(* cached loaders, and the module-level load / halt / render flow.         *)
(*                                                                         *)
(* Strings whose Unicode form matters (file names, school names, sheet     *)
(* names) are sequences of code points.  Tables (pandas DataFrames) are    *)
(* records [cols, rows].  EC values 1.0, 2.0, 4.0, 8.0 are the integers    *)
(* 1, 2, 4, 8.  A mean is kept as the pair [sum, n] and two means are      *)
(* compared by cross-multiplication.                                       *)
(***************************************************************************)
EXTENDS Integers, Sequences, FiniteSets, TLC

VARIABLES
    pc,          \* position of the script / of the function under study
    fname,       \* same_name: the program's literal
    pname,       \* same_name: the name the filesystem reports (p.name)
    match,       \* same_name: its result
    start,       \* depth of BASE_DIR below the filesystem root (root = 0)
    tree,        \* tree[d]: what is named "data" in the ancestor at depth d
    listing,     \* entries of the data directory, in iterdir() order
    DATA_DIR,    \* result of find_data_dir: depth of the parent of data/, or None
    env_df,      \* module-level env_df
    growth_df,   \* module-level growth_df
    raised,      \* an exception left a loader uncaught
    school,      \* sidebar selection
    env_sel,     \* filt(env_df)
    growth_sel,  \* filt(growth_df)
    overview,    \* Tab 1: the derived per-school table
    avg_env,     \* Tab 2: the derived per-school means
    summary,     \* Tab 3: the derived per-EC mean fresh weight
    vline,       \* Tab 3: the EC marked as optimal on the chart (0: none yet)
    errors,      \* st.error messages shown in this run
    rendered,    \* tabs rendered in this run
    calls,       \* loaders called in this run
    reads,       \* loaders whose body ran (read the filesystem) in this run
    cache,       \* st.cache_data: the entries kept by this process
    runs         \* script runs so far

vars == <<pc, fname, pname, match, start, tree, listing, DATA_DIR, env_df,
          growth_df, raised, school, env_sel, growth_sel, overview, avg_env,
          summary, vline, errors, rendered, calls, reads, cache, runs>>

----------------------------------------------------------------------------
(* Bounds of the model *)

\* longest stored name compared by same_name in SpecName (the literal is
\* one shorter)
MaxLen == 3
\* deepest BASE_DIR in SpecDir
MaxDepth == 6
\* most rows in one CSV file or one sheet
MaxRows == 2
\* script runs in Spec
MaxRuns == 3
\* depth of BASE_DIR in Spec
MainDepth == 1

----------------------------------------------------------------------------
(* unicodedata.normalize for Hangul and ASCII (Unicode 3.12, conjoining    *)
(* jamo behaviour); every other code point of the model is its own         *)
(* normal form.                                                            *)

SBase == 44032
LBase == 4352
VBase == 4449
TBase == 4519
LCount == 19
VCount == 21
TCount == 28
NCount == VCount * TCount
SCount == LCount * NCount

IsSyllable(c) == c >= SBase /\ c < SBase + SCount
IsL(c) == c >= LBase /\ c < LBase + LCount
IsV(c) == c >= VBase /\ c < VBase + VCount
IsT(c) == c > TBase /\ c < TBase + TCount
IsLV(c) == IsSyllable(c) /\ (c - SBase) % TCount = 0

\* canonical decomposition of one code point
DecomposeChar(c) ==
    IF IsSyllable(c)
    THEN LET SIndex == c - SBase
             L == LBase + (SIndex \div NCount)
             V == VBase + ((SIndex % NCount) \div TCount)
             T == TBase + (SIndex % TCount)
         IN  IF T = TBase THEN <<L, V>> ELSE <<L, V, T>>
    ELSE <<c>>

RECURSIVE nfd(_)
nfd(s) == IF s = <<>> THEN <<>> ELSE DecomposeChar(Head(s)) \o nfd(Tail(s))

\* canonical composition of a decomposed string, left to right
RECURSIVE ComposeFrom(_, _)
ComposeFrom(out, rest) ==
    IF rest = <<>> THEN out
    ELSE LET ch == Head(rest)
             n == Len(out)
             last == IF n = 0 THEN 0 ELSE out[n]
         IN  IF n > 0 /\ IsL(last) /\ IsV(ch)
             THEN ComposeFrom(
                    [out EXCEPT ![n] = SBase + ((last - LBase) * VCount + (ch - VBase)) * TCount],
                    Tail(rest))
             ELSE IF n > 0 /\ IsLV(last) /\ IsT(ch)
             THEN ComposeFrom([out EXCEPT ![n] = last + (ch - TBase)], Tail(rest))
             ELSE ComposeFrom(Append(out, ch), Tail(rest))

nfc(s) == ComposeFrom(<<>>, nfd(s))

\* a plausible bug: the raw code point sequences are compared
same_name_raw(a, b) == a = b

same_name(a, b) == nfc(a) = nfc(b)

----------------------------------------------------------------------------
(* find_data_dir *)

None == -1
SearchRange == 5

Parent(d) == IF d = 0 THEN 0 ELSE d - 1

\* a plausible bug: candidate.exists() without candidate.is_dir()
RECURSIVE FindLoopExists(_, _, _)
FindLoopExists(t, cur, n) ==
    IF n = 0 THEN None
    ELSE IF t[cur] # "none" THEN cur
    ELSE FindLoopExists(t, Parent(cur), n - 1)

\* the for loop: n iterations left, cur the directory examined next
RECURSIVE FindLoop(_, _, _)
FindLoop(t, cur, n) ==
    IF n = 0 THEN None
    ELSE IF t[cur] = "dir" THEN cur
    ELSE FindLoop(t, Parent(cur), n - 1)

find_data_dir(t, s) == FindLoop(t, s, SearchRange)

----------------------------------------------------------------------------
(* Constants of main.py, as code point sequences (the source is in NFC)    *)

Songdo == <<49569, 46020, 44256>>
Haneul == <<54616, 45720, 44256>>
Ara == <<50500, 46972, 44256>>
Dongsan == <<46041, 49328, 44256>>

SCHOOLS == <<Songdo, Haneul, Ara, Dongsan>>
ALL == <<51204, 52404>>

\* Series.map(EC_TARGET) gives NaN for a key the dict does not hold
NaN == 0

EC_TARGET(s) ==
    CASE s = Songdo -> 1
      [] s = Haneul -> 2
      [] s = Ara -> 4
      [] s = Dongsan -> 8
      [] OTHER -> NaN

\* "_환경데이터.csv"
EnvSuffix == <<95, 54872, 44221, 45936, 51060, 53552, 46, 99, 115, 118>>

ENV_FILES == <<Songdo \o EnvSuffix, Haneul \o EnvSuffix,
               Ara \o EnvSuffix, Dongsan \o EnvSuffix>>

\* "4개교_생육결과데이터.xlsx"
GROWTH_FILE == <<52, 44060, 44368, 95, 49373, 50977, 44208, 44284, 45936,
                 51060, 53552, 46, 120, 108, 115, 120>>

\* the columns of an environment CSV and of a growth sheet ("weight_g"
\* stands for the fresh weight column)
EnvCols == {"time", "temperature", "humidity", "ph", "ec"}
GrowthCols == {"weight_g"}

----------------------------------------------------------------------------
(* Tables *)

EmptyFrame == [cols |-> {}, rows |-> <<>>]

\* DataFrame.empty: some axis has length 0
Empty(df) == df.cols = {} \/ df.rows = <<>>

\* pd.concat(dfs, ignore_index=True)
RECURSIVE Concat(_)
Concat(dfs) ==
    IF dfs = <<>> THEN EmptyFrame
    ELSE LET rest == Concat(Tail(dfs))
         IN  [cols |-> Head(dfs).cols \cup rest.cols,
              rows |-> Head(dfs).rows \o rest.rows]

\* str.split("_")[0]: the part before the first underscore (code point 95)
RECURSIVE SplitFirst(_)
SplitFirst(s) ==
    IF s = <<>> \/ Head(s) = 95 THEN <<>>
    ELSE <<Head(s)>> \o SplitFirst(Tail(s))

\* the inner loop over data_dir.iterdir(): the index of the first entry
\* that is a file and whose name matches, 0 when the loop ends without one
RECURSIVE FirstMatch(_, _, _)
FirstMatch(entries, target, i) ==
    IF i > Len(entries) THEN 0
    ELSE IF entries[i].is_file /\ same_name(entries[i].name, target) THEN i
    ELSE FirstMatch(entries, target, i + 1)

----------------------------------------------------------------------------
(* load_environment_data *)

\* a plausible bug: the school is taken from the name on disk
EnvSchoolFromPath(p, f) == SplitFirst(p.name)

\* df["school"] = fname.split("_")[0]
EnvSchool(p, f) == SplitFirst(f)

\* pd.read_csv(p) of a readable file, with the school column added
EnvFrame(p, f) ==
    [cols |-> EnvCols \cup {"school"},
     rows |-> [j \in 1..Len(p.rows) |-> [school |-> EnvSchool(p, f), v |-> p.rows[j]]]]

\* the loop over ENV_FILES from index i on, dfs the tables read so far;
\* pd.read_csv raises on a file it cannot parse and nothing catches it
RECURSIVE LoadEnvFrom(_, _, _)
LoadEnvFrom(entries, i, dfs) ==
    IF i > Len(ENV_FILES)
    THEN [raised |-> FALSE, df |-> IF dfs = <<>> THEN EmptyFrame ELSE Concat(dfs)]
    ELSE LET k == FirstMatch(entries, ENV_FILES[i], 1)
         IN  IF k = 0 THEN LoadEnvFrom(entries, i + 1, dfs)
             ELSE IF ~entries[k].readable
             THEN [raised |-> TRUE, df |-> EmptyFrame]
             ELSE LoadEnvFrom(entries, i + 1,
                              Append(dfs, EnvFrame(entries[k], ENV_FILES[i])))

load_environment_data(entries) == LoadEnvFrom(entries, 1, <<>>)

----------------------------------------------------------------------------
(* load_growth_data *)

\* a plausible bug: read_excel without sheet_name=None reads the first sheet
SheetsReadFirst(p) == <<Head(p.sheets)>>

\* pd.read_excel(p, sheet_name=None): every sheet, in workbook order
SheetsRead(p) == p.sheets

\* one sheet with the school column added
GrowthFrame(sheet) ==
    [cols |-> GrowthCols \cup {"school"},
     rows |-> [j \in 1..Len(sheet.rows) |-> [school |-> sheet.name, w |-> sheet.rows[j]]]]

load_growth_data(entries) ==
    LET k == FirstMatch(entries, GROWTH_FILE, 1)
    IN  IF k = 0 THEN EmptyFrame
        ELSE LET sheets == SheetsRead(entries[k])
             IN  Concat([i \in 1..Len(sheets) |-> GrowthFrame(sheets[i])])

----------------------------------------------------------------------------
(* st.cache_data: a set of entries [fn, dir, value] kept for the process   *)

\* a plausible bug: the loaders are not cached
CacheHitNever(c, fn, dir) == FALSE

CacheHit(c, fn, dir) == \E e \in c : e.fn = fn /\ e.dir = dir

Cached(c, fn, dir) == (CHOOSE e \in c : e.fn = fn /\ e.dir = dir).value

----------------------------------------------------------------------------
(* The derived tables of the three tabs *)

\* filt(df) with the sidebar selection sel
filt(df, sel) ==
    IF sel = ALL THEN df
    ELSE [cols |-> df.cols, rows |-> SelectSeq(df.rows, LAMBDA r : r.school = sel)]

\* Tab 1: one row per school with its EC target and its number of plants
Overview(gdf) ==
    [i \in 1..Len(SCHOOLS) |->
        [school |-> SCHOOLS[i], ec |-> EC_TARGET(SCHOOLS[i]),
         n |-> Len(SelectSeq(gdf.rows, LAMBDA r : r.school = SCHOOLS[i]))]]

RECURSIVE SumOf(_)
SumOf(xs) == IF xs = <<>> THEN 0 ELSE Head(xs) + SumOf(Tail(xs))

\* Tab 2: env_df.groupby("school").mean(), a mean kept as [sum, n]
AvgEnv(edf) ==
    [s \in {edf.rows[j].school : j \in 1..Len(edf.rows)} |->
        LET g == SelectSeq(edf.rows, LAMBDA r : r.school = s)
        IN  [sum |-> SumOf([j \in 1..Len(g) |-> g[j].v]), n |-> Len(g)]]

\* Tab 3: growth_df["EC"] = growth_df["school"].map(EC_TARGET)
WithEC(gdf) ==
    [cols |-> gdf.cols \cup {"EC"},
     rows |-> [j \in 1..Len(gdf.rows) |->
                [school |-> gdf.rows[j].school, w |-> gdf.rows[j].w,
                 EC |-> EC_TARGET(gdf.rows[j].school)]]]

RECURSIVE Sorted(_)
Sorted(S) ==
    IF S = {} THEN <<>>
    ELSE LET m == CHOOSE x \in S : \A y \in S : x <= y
         IN  <<m>> \o Sorted(S \ {m})

\* Tab 3: groupby("EC") mean of the fresh weight (NaN keys are dropped),
\* sorted by EC
Summary(gdf) ==
    LET ecs == Sorted({gdf.rows[j].EC : j \in 1..Len(gdf.rows)} \ {NaN})
    IN  [i \in 1..Len(ecs) |->
            LET g == SelectSeq(gdf.rows, LAMBDA r : r.EC = ecs[i])
            IN  [EC |-> ecs[i], sum |-> SumOf([j \in 1..Len(g) |-> g[j].w]),
                 n |-> Len(g)]]

\* fig.add_vline(x=2.0, ..., annotation_text="최적 EC (하늘고)")
OptimalLine == 2

----------------------------------------------------------------------------
(* The script: main.py from top to bottom, one action per step             *)

nameVars == <<fname, pname, match>>
fsVars == <<start, tree, listing>>
tabVars == <<school, env_sel, growth_sel, overview, avg_env, summary, vline>>

\* the values the script's variables have before it assigns them
Fresh ==
    /\ DATA_DIR = None /\ env_df = EmptyFrame /\ growth_df = EmptyFrame
    /\ raised = FALSE /\ school = <<>> /\ env_sel = EmptyFrame
    /\ growth_sel = EmptyFrame /\ overview = <<>> /\ avg_env = <<>>
    /\ summary = <<>> /\ vline = 0 /\ errors = <<>> /\ rendered = {}
    /\ calls = {} /\ reads = {}

\* the script's variables are Fresh again when the script starts over
Reset ==
    /\ DATA_DIR' = None /\ env_df' = EmptyFrame /\ growth_df' = EmptyFrame
    /\ raised' = FALSE /\ school' = <<>> /\ env_sel' = EmptyFrame
    /\ growth_sel' = EmptyFrame /\ overview' = <<>> /\ avg_env' = <<>>
    /\ summary' = <<>> /\ vline' = 0 /\ errors' = <<>> /\ rendered' = {}
    /\ calls' = {} /\ reads' = {}

\* DATA_DIR = find_data_dir(BASE_DIR)
FindDataDir ==
    /\ pc = "find"
    /\ DATA_DIR' = find_data_dir(tree, start)
    /\ pc' = "check_dir"
    /\ UNCHANGED <<nameVars, fsVars, tabVars, env_df, growth_df, raised,
                   errors, rendered, calls, reads, cache, runs>>

\* if DATA_DIR is None: st.error(...); st.stop()
CheckDir ==
    /\ pc = "check_dir"
    /\ IF DATA_DIR = None
       THEN errors' = Append(errors, "no_data_dir") /\ pc' = "stopped"
       ELSE errors' = errors /\ pc' = "load_env"
    /\ UNCHANGED <<nameVars, fsVars, tabVars, DATA_DIR, env_df, growth_df,
                   raised, rendered, calls, reads, cache, runs>>

\* env_df = load_environment_data(DATA_DIR), through st.cache_data
LoadEnv ==
    /\ pc = "load_env"
    /\ calls' = calls \cup {"env"}
    /\ IF CacheHit(cache, "env", DATA_DIR)
       THEN /\ env_df' = Cached(cache, "env", DATA_DIR)
            /\ pc' = "load_growth"
            /\ UNCHANGED <<raised, reads, cache>>
       ELSE LET r == load_environment_data(listing)
            IN  /\ reads' = reads \cup {"env"}
                /\ IF r.raised
                   THEN /\ raised' = TRUE
                        /\ pc' = "exception"
                        /\ UNCHANGED <<env_df, cache>>
                   ELSE /\ env_df' = r.df
                        /\ cache' = cache \cup
                             {[fn |-> "env", dir |-> DATA_DIR, value |-> r.df]}
                        /\ pc' = "load_growth"
                        /\ UNCHANGED raised
    /\ UNCHANGED <<nameVars, fsVars, tabVars, DATA_DIR, growth_df, errors,
                   rendered, runs>>

\* growth_df = load_growth_data(DATA_DIR), through st.cache_data
LoadGrowth ==
    /\ pc = "load_growth"
    /\ calls' = calls \cup {"growth"}
    /\ IF CacheHit(cache, "growth", DATA_DIR)
       THEN /\ growth_df' = Cached(cache, "growth", DATA_DIR)
            /\ UNCHANGED <<reads, cache>>
       ELSE LET df == load_growth_data(listing)
            IN  /\ reads' = reads \cup {"growth"}
                /\ growth_df' = df
                /\ cache' = cache \cup
                     {[fn |-> "growth", dir |-> DATA_DIR, value |-> df]}
    /\ pc' = "check_env"
    /\ UNCHANGED <<nameVars, fsVars, tabVars, DATA_DIR, env_df, raised,
                   errors, rendered, runs>>

\* if env_df.empty: st.error(...); st.stop()
CheckEnv ==
    /\ pc = "check_env"
    /\ IF Empty(env_df)
       THEN errors' = Append(errors, "no_env") /\ pc' = "stopped"
       ELSE errors' = errors /\ pc' = "check_growth"
    /\ UNCHANGED <<nameVars, fsVars, tabVars, DATA_DIR, env_df, growth_df,
                   raised, rendered, calls, reads, cache, runs>>

\* if growth_df.empty: st.error(...); st.stop()
CheckGrowth ==
    /\ pc = "check_growth"
    /\ IF Empty(growth_df)
       THEN errors' = Append(errors, "no_growth") /\ pc' = "stopped"
       ELSE errors' = errors /\ pc' = "sidebar"
    /\ UNCHANGED <<nameVars, fsVars, tabVars, DATA_DIR, env_df, growth_df,
                   raised, rendered, calls, reads, cache, runs>>

\* school = st.selectbox(...); env_sel = filt(env_df); growth_sel = filt(growth_df)
Sidebar ==
    /\ pc = "sidebar"
    /\ \E s \in {ALL} \cup {SCHOOLS[i] : i \in 1..Len(SCHOOLS)} :
         /\ school' = s
         /\ env_sel' = filt(env_df, s)
         /\ growth_sel' = filt(growth_df, s)
    /\ pc' = "tab1"
    /\ UNCHANGED <<nameVars, fsVars, DATA_DIR, env_df, growth_df, raised,
                   overview, avg_env, summary, vline, errors, rendered, calls,
                   reads, cache, runs>>

Tab1 ==
    /\ pc = "tab1"
    /\ overview' = Overview(growth_df)
    /\ rendered' = rendered \cup {"tab1"}
    /\ pc' = "tab2"
    /\ UNCHANGED <<nameVars, fsVars, DATA_DIR, env_df, growth_df, raised,
                   school, env_sel, growth_sel, avg_env, summary, vline,
                   errors, calls, reads, cache, runs>>

Tab2 ==
    /\ pc = "tab2"
    /\ avg_env' = AvgEnv(env_df)
    /\ rendered' = rendered \cup {"tab2"}
    /\ pc' = "tab3"
    /\ UNCHANGED <<nameVars, fsVars, DATA_DIR, env_df, growth_df, raised,
                   school, env_sel, growth_sel, overview, summary, vline,
                   errors, calls, reads, cache, runs>>

\* growth_df gets the EC column in place; growth_sel is the same object
\* as growth_df when the selection is ALL (filt returned df itself)
Tab3 ==
    /\ pc = "tab3"
    /\ growth_df' = WithEC(growth_df)
    /\ growth_sel' = IF school = ALL THEN growth_df' ELSE growth_sel
    /\ summary' = Summary(growth_df')
    /\ vline' = OptimalLine
    /\ rendered' = rendered \cup {"tab3"}
    /\ pc' = "done"
    /\ UNCHANGED <<nameVars, fsVars, DATA_DIR, env_df, raised, school,
                   env_sel, overview, avg_env, errors, calls, reads, cache,
                   runs>>

Ended == pc \in {"stopped", "exception", "done"}

\* Streamlit runs the script again from the top in the same process: the
\* script's variables start afresh, the cache stays
Rerun ==
    /\ Ended /\ runs < MaxRuns
    /\ runs' = runs + 1
    /\ pc' = "find"
    /\ Reset
    /\ UNCHANGED <<nameVars, fsVars, cache>>

\* the process is restarted: the cache starts empty
Restart ==
    /\ Ended /\ runs < MaxRuns
    /\ runs' = runs + 1
    /\ pc' = "find"
    /\ Reset
    /\ cache' = {}
    /\ UNCHANGED <<nameVars, fsVars>>

----------------------------------------------------------------------------
(* The filesystem the script reads *)

Forms == {"NFC", "NFD"}

\* the name as a filesystem of the given normalization form stores it
InForm(name, form) == IF form = "NFD" THEN nfd(name) ELSE nfc(name)

Other(form) == IF form = "NFD" THEN "NFC" ELSE "NFD"

\* "기타", a sheet name that is no school
Gita == <<44592, 53440>>

\* the tables of readings or weights: no row, one row, and MaxRows rows
\* with the values descending
Tables == {<<>>, <<1>>, [j \in 1..MaxRows |-> MaxRows + 1 - j]}

Absent == [present |-> FALSE, readable |-> FALSE, rows |-> <<>>]
Corrupt == [present |-> TRUE, readable |-> FALSE, rows |-> <<>>]
Ok(t) == [present |-> TRUE, readable |-> TRUE, rows |-> t]

Contents == {Absent, Corrupt} \cup {Ok(t) : t \in Tables}

\* the id of the spreadsheet among the entries of a listing
GrowthId == Len(ENV_FILES) + 1

NoBook == [present |-> FALSE, sheets |-> <<>>]
Book(sheets) == [present |-> TRUE, sheets |-> sheets]

\* the names of the five files as each form stores them
StoredName ==
    [i \in 1..5, form \in Forms |->
        InForm(IF i = GrowthId THEN GROWTH_FILE ELSE ENV_FILES[i], form)]

EnvEntry(i, form, c) ==
    IF c.present
    THEN <<[id |-> i, name |-> StoredName[i, form], is_file |-> TRUE,
            readable |-> c.readable, rows |-> c.rows, sheets |-> <<>>]>>
    ELSE <<>>

GrowthEntry(form, wb) ==
    IF wb.present
    THEN <<[id |-> GrowthId, name |-> StoredName[GrowthId, form], is_file |-> TRUE,
            readable |-> TRUE, rows |-> <<>>, sheets |-> wb.sheets]>>
    ELSE <<>>

\* a subdirectory named like the first CSV, in the other form
Decoy(form, decoy) ==
    IF decoy
    THEN <<[id |-> 0, name |-> StoredName[1, Other(form)], is_file |-> FALSE,
            readable |-> FALSE, rows |-> <<>>, sheets |-> <<>>]>>
    ELSE <<>>

Reverse(s) == [i \in 1..Len(s) |-> s[Len(s) + 1 - i]]

\* a data directory: iterdir() yields the entries in either order
MakeListing(form, es, wb, decoy, rev) ==
    LET l == Decoy(form, decoy) \o EnvEntry(1, form, es[1])
             \o EnvEntry(2, form, es[2]) \o GrowthEntry(form, wb)
             \o EnvEntry(3, form, es[3]) \o EnvEntry(4, form, es[4])
    IN  IF rev THEN Reverse(l) ELSE l

\* Which file an entry is (its id: 1..4 the CSV of the i-th school, 5 the
\* spreadsheet, 0 the subdirectory) is known to the model, not to the
\* program, which sees the name only.
Present(l, i) == \E k \in 1..Len(l) : l[k].id = i
TheFile(l, i) == l[CHOOSE k \in 1..Len(l) : l[k].id = i]

----------------------------------------------------------------------------
(* SpecName: same_name applied to every pair of short strings over Hangul  *)
(* jamo, syllables and an ASCII character                                  *)

\* choseong KIYEOK, jungseong A, jongseong KIYEOK, GA, GAG, "_"
Alphabet == {4352, 4449, 4520, 44032, 44033, 95}

Strings(m) == UNION {[1..n -> Alphabet] : n \in 0..m}

InitName ==
    /\ pc = "name"
    /\ fname \in Strings(MaxLen - 1) /\ pname \in Strings(MaxLen)
    /\ match = FALSE
    /\ start = 0 /\ tree = <<>> /\ listing = <<>>
    /\ Fresh /\ cache = {} /\ runs = 1

Match ==
    /\ pc = "name"
    /\ match' = same_name(pname, fname)
    /\ pc' = "matched"
    /\ UNCHANGED <<fname, pname, fsVars, tabVars, DATA_DIR, env_df,
                   growth_df, raised, errors, rendered, calls, reads, cache,
                   runs>>

SpecName == InitName /\ [][Match]_vars

\* C2: the filename match holds exactly for canonically equivalent names
\* (equal canonical decompositions), whichever form each side is in.
C2_MatchIffCanonicallyEquivalent ==
    pc = "matched" => (match <=> nfd(pname) = nfd(fname))

\* the literal is composed, the filesystem stores the decomposed form
C2_Witness ==
    /\ pc = "matched" /\ match
    /\ pname # fname /\ fname = nfc(fname) /\ pname = nfd(fname)

----------------------------------------------------------------------------
(* SpecDir: find_data_dir from every start depth over every tree           *)

Kinds == {"none", "file", "dir"}

InitDir ==
    /\ pc = "find"
    /\ start \in 0..MaxDepth
    /\ tree \in [0..start -> Kinds]
    /\ fname = <<>> /\ pname = <<>> /\ match = FALSE /\ listing = <<>>
    /\ Fresh /\ cache = {} /\ runs = 1

SpecDir == InitDir /\ [][FindDataDir]_vars

\* the k-th ancestor of the start directory (k = 0: the start itself)
Ancestor(k) == IF k >= start THEN 0 ELSE start - k

\* the locations the loop examines: the start and the SearchRange - 1
\* directories above it
Examined == {Ancestor(k) : k \in 0..(SearchRange - 1)}

\* C3: find_data_dir returns None when no examined location holds a
\* directory named data, otherwise the examined location nearest to the
\* start that holds one; what it returns is always an existing directory.
C3_NearestOrNone ==
    pc = "check_dir" =>
        /\ (DATA_DIR = None <=> \A d \in Examined : tree[d] # "dir")
        /\ DATA_DIR # None =>
             /\ DATA_DIR \in Examined
             /\ tree[DATA_DIR] = "dir"
             /\ \A d \in Examined : tree[d] = "dir" => d <= DATA_DIR

\* two examined locations hold data/, a nearer one holds a file named data
C3_Witness ==
    /\ pc = "check_dir" /\ DATA_DIR # None
    /\ \E d \in Examined : d < DATA_DIR /\ tree[d] = "dir"
    /\ \E d \in Examined : d > DATA_DIR /\ tree[d] = "file"

\* C10: for every k from 0 to 5, a data directory in the k-th ancestor
\* with none nearer is returned.
C10_FiveLevelsUp ==
    pc = "check_dir" =>
        \A k \in 0..5 :
            (tree[Ancestor(k)] = "dir"
               /\ \A j \in 0..(k - 1) : tree[Ancestor(j)] # "dir")
            => DATA_DIR = Ancestor(k)

----------------------------------------------------------------------------
(* SpecEnv: load_environment_data on every data directory: each CSV is     *)
(* missing, unreadable or holds a table; the names are stored composed or  *)
(* decomposed; the entries come in file order, or in reverse order after a *)
(* subdirectory named like the first CSV                                   *)

OneSheet == Book(<<[name |-> Songdo, rows |-> <<1>>]>>)

EnvListings ==
    {MakeListing(form, es, OneSheet, alt, alt) :
        form \in Forms, es \in [1..4 -> Contents], alt \in BOOLEAN}

InitEnv ==
    /\ pc = "load_env"
    /\ start = 0 /\ tree = [d \in {0} |-> "dir"]
    /\ listing \in EnvListings
    /\ fname = <<>> /\ pname = <<>> /\ match = FALSE
    /\ DATA_DIR = 0 /\ env_df = EmptyFrame /\ growth_df = EmptyFrame
    /\ raised = FALSE /\ school = <<>> /\ env_sel = EmptyFrame
    /\ growth_sel = EmptyFrame /\ overview = <<>> /\ avg_env = <<>>
    /\ summary = <<>> /\ vline = 0 /\ errors = <<>> /\ rendered = {}
    /\ calls = {} /\ reads = {} /\ cache = {} /\ runs = 1

SpecEnv == InitEnv /\ [][LoadEnv]_vars

EnvLoaded == pc \in {"load_growth", "exception"}

\* the rows of the i-th expected file tagged with the i-th school, none
\* when the file is missing (or, with readableOnly, unreadable)
ExpectedOf(i, readableOnly) ==
    IF Present(listing, i)
       /\ (readableOnly => TheFile(listing, i).readable)
    THEN LET f == TheFile(listing, i)
         IN  [j \in 1..Len(f.rows) |-> [school |-> SCHOOLS[i], v |-> f.rows[j]]]
    ELSE <<>>

Expected(readableOnly) ==
    ExpectedOf(1, readableOnly) \o ExpectedOf(2, readableOnly)
        \o ExpectedOf(3, readableOnly) \o ExpectedOf(4, readableOnly)

NoneUnreadable ==
    \A i \in 1..4 : Present(listing, i)
                       => TheFile(listing, i).readable

C5_ReadFailureExcluded ==
    EnvLoaded => ~raised /\ env_df.rows = Expected(TRUE)

----------------------------------------------------------------------------
(* SpecGrowth: load_growth_data on every workbook                          *)

SheetNames == <<Songdo, Haneul, Ara, Dongsan, Gita>>

NoSheet == <<0>>

SheetOf(i, c) ==
    IF c = NoSheet THEN <<>> ELSE <<[name |-> SheetNames[i], rows |-> c]>>

\* the workbooks: each name has a sheet or not, in either order, and a
\* workbook has at least one sheet
Books ==
    {Book(IF rev THEN Reverse(ss) ELSE ss) :
        rev \in BOOLEAN,
        ss \in {SheetOf(1, c[1]) \o SheetOf(2, c[2]) \o SheetOf(3, c[3])
                  \o SheetOf(4, c[4]) \o SheetOf(5, c[5]) :
                c \in [1..5 -> Tables \cup {NoSheet}]} \ {<<>>}}

OneCsv == [i \in 1..4 |-> IF i = 1 THEN Ok(<<1>>) ELSE Absent]

GrowthListings ==
    {MakeListing(form, OneCsv, wb, FALSE, FALSE) :
        form \in Forms, wb \in Books \cup {NoBook}}

InitGrowth ==
    /\ pc = "load_growth"
    /\ start = 0 /\ tree = [d \in {0} |-> "dir"]
    /\ listing \in GrowthListings
    /\ fname = <<>> /\ pname = <<>> /\ match = FALSE
    /\ DATA_DIR = 0 /\ env_df = EmptyFrame /\ growth_df = EmptyFrame
    /\ raised = FALSE /\ school = <<>> /\ env_sel = EmptyFrame
    /\ growth_sel = EmptyFrame /\ overview = <<>> /\ avg_env = <<>>
    /\ summary = <<>> /\ vline = 0 /\ errors = <<>> /\ rendered = {}
    /\ calls = {} /\ reads = {} /\ cache = {} /\ runs = 1

SpecGrowth == InitGrowth /\ [][LoadGrowth]_vars

RowsOf(df, s) == Len(SelectSeq(df.rows, LAMBDA r : r.school = s))

\* C8: with the spreadsheet present, every sheet's rows are in the result
\* tagged with the sheet's name, whether or not the name is a school: the
\* rows tagged with a sheet's name are as many as the sheet has, and the
\* result has no other rows.
C8_EverySheetByName ==
    (pc = "check_env" /\ Present(listing, GrowthId)) =>
        LET sheets == TheFile(listing, GrowthId).sheets
        IN  /\ ~raised
            /\ \A i \in 1..Len(sheets) :
                 RowsOf(growth_df, sheets[i].name) = Len(sheets[i].rows)
            /\ \A j \in 1..Len(growth_df.rows) :
                 \E i \in 1..Len(sheets) : growth_df.rows[j].school = sheets[i].name

\* a sheet named after no school, after a school's sheet, both with rows
C8_Witness ==
    /\ pc = "check_env" /\ Present(listing, GrowthId)
    /\ TheFile(listing, GrowthId).name # GROWTH_FILE
    /\ RowsOf(growth_df, Gita) = MaxRows
    /\ RowsOf(growth_df, Songdo) = 1
    /\ growth_df.rows[1].school = Songdo

----------------------------------------------------------------------------
(* Spec: the dashboard over several runs of the script, the filesystem     *)
(* changing between runs                                                   *)

\* data/ in the directory at depth k, or nowhere (k = None)
MainTrees ==
    {[d \in 0..MainDepth |-> IF d = k THEN "dir" ELSE "none"] :
        k \in {None} \cup 0..MainDepth}

NoCsv == [i \in 1..4 |-> Absent]
AllCsv == [i \in 1..4 |-> IF i = 1 THEN Ok(<<2, 1>>) ELSE Ok(<<1>>)]
BadCsv == [i \in 1..4 |-> IF i = 2 THEN Corrupt ELSE Ok(<<1>>)]

\* the highest mean fresh weight is at EC 1.0 (1.5 against 1)
BookA == Book(<<[name |-> Songdo, rows |-> <<2, 1>>],
                [name |-> Haneul, rows |-> <<1>>]>>)
\* EC 2.0 and EC 4.0 tie for the highest mean; one sheet is no school's
BookB == Book(<<[name |-> Ara, rows |-> <<2, 1>>],
                [name |-> Haneul, rows |-> <<2, 1>>],
                [name |-> Gita, rows |-> <<1>>]>>)

MainListings ==
    {MakeListing("NFD", es, wb, FALSE, FALSE) :
        es \in {NoCsv, AllCsv, BadCsv}, wb \in {NoBook, BookA, BookB}}

Init ==
    /\ pc = "find"
    /\ start = MainDepth
    /\ tree \in MainTrees
    /\ listing \in MainListings
    /\ fname = <<>> /\ pname = <<>> /\ match = FALSE
    /\ Fresh /\ cache = {} /\ runs = 1

\* between two runs files and directories are created, removed, rewritten
FsChange ==
    /\ pc = "find"
    /\ \E t \in MainTrees, l \in MainListings :
         /\ <<t, l>> # <<tree, listing>>
         /\ tree' = t
         /\ listing' = l
    /\ UNCHANGED <<nameVars, start, tabVars, DATA_DIR, env_df, growth_df,
                   raised, errors, rendered, calls, reads, cache, runs, pc>>

Next ==
    \/ FindDataDir \/ CheckDir \/ LoadEnv \/ LoadGrowth \/ CheckEnv
    \/ CheckGrowth \/ Sidebar \/ Tab1 \/ Tab2 \/ Tab3
    \/ Rerun \/ Restart \/ FsChange

Spec == Init /\ [][Next]_vars

AllCsvMissing == \A i \in 1..4 : ~Present(listing, i)

\* what the claim of C1 says of a run that has ended
FatalFlow ==
    /\ find_data_dir(tree, start) = None
         => errors = <<"no_data_dir">> /\ rendered = {} /\ calls = {}
    /\ (find_data_dir(tree, start) # None
          /\ (AllCsvMissing \/ ~Present(listing, GrowthId)))
         => Len(errors) = 1 /\ rendered = {}

\* C1: tabs are rendered only with the data directory found and both
\* tables non-empty; with the data directory not found, or all four CSVs
\* missing, or the spreadsheet missing, the run ends with exactly one
\* error message and nothing rendered (and no loader called when the
\* directory is not found).
C1_OneErrorAndHalt ==
    /\ rendered # {} => DATA_DIR # None /\ ~Empty(env_df) /\ ~Empty(growth_df)
    /\ Ended => FatalFlow

\* The same holds of every run in which no read fails and both loaders
\* read the disk (no table comes from the cache).
FatalFlowOfAFreshLoad ==
    /\ rendered # {} => DATA_DIR # None /\ ~Empty(env_df) /\ ~Empty(growth_df)
    /\ (Ended /\ ~raised /\ calls \subseteq reads) => FatalFlow

\* mean a >= mean b, the means kept as [sum, n]
MeanGeq(a, b) == a.sum * b.n >= b.sum * a.n

\* the EC level of the highest mean, the lowest such level on a tie (sm is
\* sorted by EC)
BestEC(sm) ==
    sm[CHOOSE i \in 1..Len(sm) :
          /\ \A j \in 1..Len(sm) : MeanGeq(sm[i], sm[j])
          /\ \A j \in 1..(i - 1) : ~MeanGeq(sm[j], sm[i])].EC

\* C6: the EC reported as optimal is the EC level of the highest mean
\* fresh weight, the lowest such level on a tie.
C6_OptimalIsArgMax ==
    (pc = "done" /\ summary # <<>>) => vline = BestEC(summary)

AfterLoad == {"check_env", "check_growth", "sidebar", "tab1", "tab2", "tab3"}

\* C7: no step of the run after the load changes env_df or growth_df.
C7_TablesImmutable ==
    [][(pc \in AfterLoad) => (env_df' = env_df /\ growth_df' = growth_df)]_vars

\* C9: a loader called for a data directory it has an entry for returns
\* that entry's table without reading the filesystem, and an entry stays
\* in the cache until the process restarts.
C9_CachedUntilRestart ==
    [][/\ (pc = "load_env" /\ \E e \in cache : e.fn = "env" /\ e.dir = DATA_DIR)
           => /\ \E e \in cache :
                   e.fn = "env" /\ e.dir = DATA_DIR /\ env_df' = e.value
              /\ reads' = reads
       /\ (pc = "load_growth"
             /\ \E e \in cache : e.fn = "growth" /\ e.dir = DATA_DIR)
           => /\ \E e \in cache :
                   e.fn = "growth" /\ e.dir = DATA_DIR /\ growth_df' = e.value
              /\ reads' = reads
       /\ (cache \subseteq cache' \/ Restart)]_vars

\* in a later run the environment table came from the cache although the
\* files have changed since
C9_Witness ==
    /\ pc = "load_growth" /\ runs > 1
    /\ "env" \in calls /\ "env" \notin reads
    /\ ~load_environment_data(listing).raised
    /\ env_df # load_environment_data(listing).df

====
